---- MODULE Spec2Model ----
(***************************************************************************)
(* The per-client task store of src/api/v1/app.py: the process-wide        *)
(* mapping tasks_db (client address -> insertion-ordered mapping of task   *)
(* id -> Task), the request handlers that read and mutate it, and the      *)
(* pydantic models that parse request bodies.                              *)
(*                                                                         *)
(* Python's None is the empty tuple and a value v that may be None is the  *)
(* one-element tuple <<v>>.  A JSON body is a record whose every field is  *)
(* either Absent (the key is not in the body) or Given(o) with o the       *)
(* key's value, None for JSON null.  A dict is the sequence of its values  *)
(* in insertion order; every value carries its key in the field id.        *)
(* Timestamps are clock ticks of half an hour.                             *)
(***************************************************************************)
EXTENDS Integers, Sequences, FiniteSets, TLC

\* ------------------------------------------------------------------ bounds
\* datetime.utcnow() runs from 0 to MaxTime.
MaxTime == 1
\* Spec: uuid4() is drawn at most MaxTasks times in a run, and the bodies of a
\* run give at most MaxSupplied optional fields in all.
MaxTasks == 2
MaxSupplied == 1
\* SpecTree
TreeTasks == 3
TreeSupplied == 1
\* SpecFields
FieldsTasks == 2
FieldsSupplied == 2
\* A body names a parent_id in 1..MaxIds.
MaxIds == 4
\* SpecRace: the create_task requests that run concurrently.
MaxRequests == 2
\* GET /tasks/ is asked with skip in 0..MaxSkip and limit in 1..MaxLimit.
MaxSkip == 1
MaxLimit == 2

\* timedelta(hours=1), in ticks.
Hour == 2
\* The default of Task.priority and TaskCreate.priority.
DefaultPriority == 3
\* Field(..., ge=1, le=5)
MinPriority == 1
MaxPriority == 5

None == <<>>
Some(v) == <<v>>
Absent == <<>>
Given(o) == <<o>>

Clients == {"A", "B"}
Ids == 1..MaxIds

VARIABLES
    tasks_db,   \* the store: [a set of client addresses -> sequence of Task]
    now,        \* the value datetime.utcnow() returns
    nextId,     \* the next value uuid4() returns
    supplied,   \* optional body fields given so far in the run
    outcome,    \* how the last request ended
    \* SpecRace, where the store holds references and requests run in threads:
    dicts,      \* the dict objects made by "{}", by address
    db_ref,     \* tasks_db: [a set of client addresses -> address in dicts]
    req         \* the requests in flight: their position and their locals

raceVars == <<dicts, db_ref, req>>
vars == <<tasks_db, now, nextId, supplied, outcome, dicts, db_ref, req>>

\* ---------------------------------------------------------- request inputs
Titles == {"X"}
NewTitles == {"Y"}
Descriptions == {"d"}
DueDates == {0, 2}
\* 0 and 6 are the nearest integers outside Field(ge=1, le=5).
RawPriorities == {0, 1, 5, 6}
TagLists == {<<>>, <<"x">>}
ApiKeys == {"secret-api-key", "wrong-key"}

Opt(S) == {Absent, Given(None)} \cup {Given(Some(v)) : v \in S}

CreateOptional == {"description", "due_date", "priority", "tags", "parent_id"}
UpdateOptional == {"title", "description", "completed", "due_date", "priority",
                   "tags", "parent_id"}

NSupplied(raw, fields) == Cardinality({f \in fields : raw[f] # Absent})

\* JSON bodies sent to POST /tasks/, POST /tasks/{id}/subtasks and PUT: a
\* title with at most n optional fields, and the two bodies whose title is
\* missing or null.
RawCreates(n) ==
    {raw \in [title : {Given(Some(v)) : v \in Titles},
              description : Opt(Descriptions), due_date : Opt(DueDates),
              priority : Opt(RawPriorities), tags : Opt(TagLists),
              parent_id : Opt(Ids)] :
        NSupplied(raw, CreateOptional) <= n}
    \cup [title : {Absent, Given(None)}, description : {Absent},
          due_date : {Absent}, priority : {Absent}, tags : {Absent},
          parent_id : {Absent}]

\* JSON bodies sent to PATCH, of at most n fields.
RawUpdates(n) ==
    {raw \in [title : Opt(NewTitles), description : Opt(Descriptions),
              completed : Opt(BOOLEAN), due_date : Opt(DueDates),
              priority : Opt(RawPriorities), tags : Opt(TagLists),
              parent_id : Opt(Ids)] :
        NSupplied(raw, UpdateOptional) <= n}

\* The set S, held by its elements: evaluated once where it is a constant.
Enumerated(S) == {x : x \in S}

\* The bodies of the runs of Spec, SpecTree and SpecFields.
SpecCreates == Enumerated(RawCreates(MaxSupplied))
SpecUpdates == Enumerated(RawUpdates(MaxSupplied))
TreeCreates == Enumerated(RawCreates(TreeSupplied))
TreeUpdates == Enumerated(RawUpdates(TreeSupplied))
FieldsCreates == Enumerated(RawCreates(FieldsSupplied))
FieldsUpdates == Enumerated(RawUpdates(FieldsSupplied))

\* ------------------------------------------------------------- data models
\* class Task: a new instance, with id, created_at and updated_at from their
\* default factories and completed from its default.
Task(id, t, title, description, due_date, priority, tags, parent_id) ==
    [id |-> id, title |-> title, description |-> description,
     completed |-> Some(FALSE), created_at |-> t, updated_at |-> t,
     due_date |-> due_date, priority |-> priority, tags |-> tags,
     parent_id |-> parent_id]

PriorityOk(raw) ==
    IF raw.priority \in {Absent, Given(None)} THEN TRUE
    ELSE raw.priority[1][1] \in MinPriority..MaxPriority

Default(field, dflt) == IF field = Absent THEN dflt ELSE field[1]

\* class TaskCreate: whether the body validates, and the model it parses to.
TaskCreateValid(raw) ==
    /\ raw.title \notin {Absent, Given(None)}
    /\ PriorityOk(raw)

TaskCreate(raw) ==
    [title |-> raw.title[1],
     description |-> Default(raw.description, None),
     due_date |-> Default(raw.due_date, None),
     priority |-> Default(raw.priority, Some(DefaultPriority)),
     tags |-> Default(raw.tags, Some(<<>>)),
     parent_id |-> Default(raw.parent_id, None)]

\* class TaskUpdate: every field optional with default None; fields_set is
\* what dict(exclude_unset=True) keeps.
TaskUpdateValid(raw) == PriorityOk(raw)

TaskUpdate(raw) ==
    [fields_set |-> {f \in UpdateOptional : raw[f] # Absent},
     title |-> Default(raw.title, None),
     description |-> Default(raw.description, None),
     completed |-> Default(raw.completed, None),
     due_date |-> Default(raw.due_date, None),
     priority |-> Default(raw.priority, None),
     tags |-> Default(raw.tags, None),
     parent_id |-> Default(raw.parent_id, None)]

\* ------------------------------------------------------------------- store
\* get_client_tasks: the store after the call; the collection is at [ip].
get_client_tasks(db, ip) ==
    IF ip \in DOMAIN db THEN db ELSE db @@ (ip :> <<>>)

\* The keys of a collection.
KeysOf(coll) == {coll[i].id : i \in 1..Len(coll)}

\* client_tasks.get(task_id): the index of the value, 0 for None.
IndexOf(coll, task_id) ==
    IF task_id \in KeysOf(coll)
    THEN CHOOSE i \in 1..Len(coll) : coll[i].id = task_id
    ELSE 0

\* verify_api_key: whether the request passes the dependency.
verify_api_key(key) == key = "secret-api-key"

\* ---------------------------------------------------------------- handlers
\* A handler is an operator from the store and the request to what the call
\* leaves and gives back: the store, how the call ended ("ok", "NotFound" for
\* HTTPException(404), or the exception that escaped) and the value returned.
Response(db, how, result) == [db |-> db, outcome |-> how, result |-> result]

\* create_task, lines 101-108: the Task built from the parsed body.
NewTask(id, t, data, parent_id) ==
    Task(id, t, data.title, data.description, data.due_date,
         IF data.priority # None THEN data.priority ELSE Some(DefaultPriority),
         IF data.tags # None THEN data.tags ELSE Some(<<>>),
         parent_id)

\* An insert that leaves the new task alone in the collection: what
\* create_task must not do.
StoreAlone(coll, new) == <<new>>

\* client_tasks[new_task.id] = new_task, for a key uuid4() has just drawn.
CreateStore(coll, new) == Append(coll, new)

\* id is what uuid4() returns and t what datetime.utcnow() returns.
create_task(db, c, data, id, t) ==
    LET db1 == get_client_tasks(db, c)
        new_task == NewTask(id, t, data, data.parent_id)
    IN  Response([db1 EXCEPT ![c] = CreateStore(@, new_task)], "ok", <<new_task>>)

create_subtask(db, c, task_id, data, id, t) ==
    LET db1 == get_client_tasks(db, c)
        subtask == NewTask(id, t, data, Some(task_id))
    IN  IF task_id \notin KeysOf(db1[c])
        THEN Response(db1, "NotFound", <<>>)
        ELSE Response([db1 EXCEPT ![c] = CreateStore(@, subtask)], "ok", <<subtask>>)

\* update_task, lines 161-167: the stored Task after the assignments.
UpdateTask(task, data, t) ==
    [task EXCEPT !.title = data.title,
                 !.description = data.description,
                 !.due_date = data.due_date,
                 !.priority = IF data.priority # None THEN data.priority ELSE @,
                 !.tags = IF data.tags # None THEN data.tags ELSE @,
                 !.parent_id = data.parent_id,
                 !.updated_at = t]

update_task(db, c, task_id, data, t) ==
    LET db1 == get_client_tasks(db, c)
        i == IndexOf(db1[c], task_id)
        task == UpdateTask(db1[c][i], data, t)
    IN  IF i = 0 THEN Response(db1, "NotFound", <<>>)
        ELSE Response([db1 EXCEPT ![c][i] = task], "ok", <<task>>)

\* setattr for every key of dict(), the unset ones with their default None:
\* what partial_update_task must not do.
PatchEveryField(task, data, t) ==
    [f \in DOMAIN task |->
        IF f \in UpdateOptional THEN data[f]
        ELSE IF f = "updated_at" THEN t
        ELSE task[f]]

\* partial_update_task, lines 179-182: setattr for every key of
\* dict(exclude_unset=True), then updated_at.
PatchTask(task, data, t) ==
    [f \in DOMAIN task |->
        IF f \in data.fields_set THEN data[f]
        ELSE IF f = "updated_at" THEN t
        ELSE task[f]]

partial_update_task(db, c, task_id, data, t) ==
    LET db1 == get_client_tasks(db, c)
        i == IndexOf(db1[c], task_id)
        task == PatchTask(db1[c][i], data, t)
    IN  IF i = 0 THEN Response(db1, "NotFound", <<>>)
        ELSE Response([db1 EXCEPT ![c][i] = task], "ok", <<task>>)

\* A cascade that follows parent_id a second level down: what delete_task
\* must not do.
SubtasksTwoLevels(coll, task_id) ==
    LET children == {coll[i].id : i \in {j \in 1..Len(coll) :
                                            coll[j].parent_id = Some(task_id)}}
    IN  children \cup
        {coll[i].id : i \in {j \in 1..Len(coll) :
                                \E k \in children : coll[j].parent_id = Some(k)}}

\* delete_task, line 194: the keys whose task has parent_id == task_id.
SubtasksToDelete(coll, task_id) ==
    {coll[i].id : i \in {j \in 1..Len(coll) : coll[j].parent_id = Some(task_id)}}

\* The collection after del client_tasks[k] for every k in ids.
Without(coll, ids) == SelectSeq(coll, LAMBDA t : t.id \notin ids)

\* delete_task, lines 194-200, for a key that is in the collection: the loop
\* deletes the subtasks, then del client_tasks[task_id] raises KeyError when
\* the loop has already deleted that key.
DeleteStore(coll, task_id) ==
    LET subtasks == SubtasksToDelete(coll, task_id)
    IN  IF task_id \in subtasks
        THEN [outcome |-> "KeyError", coll |-> Without(coll, subtasks)]
        ELSE [outcome |-> "ok", coll |-> Without(coll, subtasks \cup {task_id})]

delete_task(db, c, task_id) ==
    LET db1 == get_client_tasks(db, c)
        r == DeleteStore(db1[c], task_id)
    IN  IF task_id \notin KeysOf(db1[c]) THEN Response(db1, "NotFound", <<>>)
        ELSE Response([db1 EXCEPT ![c] = r.coll], r.outcome, <<>>)

\* A lookup by id over every collection of the store rather than the
\* caller's own: what get_task must not do.
get_task_any_client(db, c, task_id) ==
    LET db1 == get_client_tasks(db, c)
        owners == {o \in DOMAIN db1 : task_id \in KeysOf(db1[o])}
        o == CHOOSE o \in owners : TRUE
    IN  IF owners = {} THEN Response(db1, "NotFound", <<>>)
        ELSE Response(db1, "ok", <<db1[o][IndexOf(db1[o], task_id)]>>)

get_task(db, c, task_id) ==
    LET db1 == get_client_tasks(db, c)
        i == IndexOf(db1[c], task_id)
    IN  IF i = 0 THEN Response(db1, "NotFound", <<>>)
        ELSE Response(db1, "ok", <<db1[c][i]>>)

list_subtasks(db, c, task_id) ==
    LET db1 == get_client_tasks(db, c)
    IN  IF task_id \notin KeysOf(db1[c]) THEN Response(db1, "NotFound", <<>>)
        ELSE Response(db1, "ok",
                      SelectSeq(db1[c], LAMBDA t : t.parent_id = Some(task_id)))

\* The query parameters of GET /tasks/.
Queries ==
    [completed : {None, Some(TRUE), Some(FALSE)},
     tag : {None, Some(""), Some("x")},
     priority : {None, Some(1)},
     parent : BOOLEAN,
     limit : 1..MaxLimit,
     skip : 0..MaxSkip]

Min(a, b) == IF a <= b THEN a ELSE b

\* tag in t.tags, for t.tags a list
InTags(tag, tags) == \E i \in 1..Len(tags) : tags[i] = tag

\* if tag:
Truthy(tag) == tag # None /\ tag # Some("")

\* client_tasks[skip: skip + limit]
Slice(tasks, skip, limit) == SubSeq(tasks, skip + 1, Min(skip + limit, Len(tasks)))

\* list_tasks, lines 130-142.  "tag in t.tags" raises TypeError when a task
\* the completed filter has kept has tags None.
list_tasks(db, c, q) ==
    LET db1 == get_client_tasks(db, c)
        s1 == IF q.completed # None
              THEN SelectSeq(db1[c], LAMBDA t : t.completed = q.completed)
              ELSE db1[c]
        raises == Truthy(q.tag) /\ \E i \in 1..Len(s1) : s1[i].tags = None
        s2 == IF Truthy(q.tag)
              THEN SelectSeq(s1, LAMBDA t : InTags(q.tag[1], t.tags[1]))
              ELSE s1
        s3 == IF q.priority # None
              THEN SelectSeq(s2, LAMBDA t : t.priority = q.priority)
              ELSE s2
        s4 == IF q.parent
              THEN SelectSeq(s3, LAMBDA t : t.parent_id = None)
              ELSE s3
    IN  IF raises THEN Response(db1, "TypeError", <<>>)
        ELSE Response(db1, "ok", Slice(s4, q.skip, q.limit))

\* Statistics whose overdue count does not look at completed: what
\* tasks_stats must not do.
StatsOverdueOfAll(coll, t) ==
    LET total == Len(coll)
        completed == Len(SelectSeq(coll, LAMBDA x : x.completed = Some(TRUE)))
        overdue == Len(SelectSeq(coll, LAMBDA x : /\ x.due_date # None
                                                  /\ x.due_date[1] < t))
    IN  [total_tasks |-> total, completed_tasks |-> completed,
         pending_tasks |-> total - completed, overdue_tasks |-> overdue]

\* tasks_stats, lines 242-251: the dict the handler returns.
Stats(coll, t) ==
    LET total == Len(coll)
        completed == Len(SelectSeq(coll, LAMBDA x : x.completed = Some(TRUE)))
        overdue == Len(SelectSeq(coll, LAMBDA x : /\ x.due_date # None
                                                  /\ x.due_date[1] < t
                                                  /\ x.completed # Some(TRUE)))
    IN  [total_tasks |-> total, completed_tasks |-> completed,
         pending_tasks |-> total - completed, overdue_tasks |-> overdue]

tasks_stats(db, c, t) ==
    LET db1 == get_client_tasks(db, c)
    IN  Response(db1, "ok", <<Stats(db1[c], t)>>)

\* The two f-strings of get_notifications: which one, and the title and id
\* it prints.
Message(kind, task) == [kind |-> kind, title |-> task.title, id |-> task.id]

\* A "due soon" that includes the task due in exactly one hour: what
\* get_notifications must not do.
NotifyAtTheHour(task, t) ==
    IF task.due_date # None /\ task.completed # Some(TRUE)
    THEN IF t > task.due_date[1] THEN <<Message("overdue", task)>>
         ELSE IF task.due_date[1] - t <= Hour THEN <<Message("due soon", task)>>
         ELSE <<>>
    ELSE <<>>

\* get_notifications, lines 85-90: the messages one task adds.
Notify(task, t) ==
    IF task.due_date # None /\ task.completed # Some(TRUE)
    THEN IF t > task.due_date[1] THEN <<Message("overdue", task)>>
         ELSE IF task.due_date[1] - t < Hour THEN <<Message("due soon", task)>>
         ELSE <<>>
    ELSE <<>>

RECURSIVE get_notifications(_, _)
get_notifications(tasks, t) ==
    IF tasks = <<>> THEN <<>>
    ELSE Notify(Head(tasks), t) \o get_notifications(Tail(tasks), t)

tasks_notifications(db, c, t) ==
    LET db1 == get_client_tasks(db, c)
    IN  Response(db1, "ok", get_notifications(db1[c], t))

\* ---------------------------------------------------------------- requests
\* A request is handled: the store and the outcome are what the handler left.
Handle(r) ==
    /\ tasks_db' = r.db
    /\ outcome' = r.outcome

Create(c, raw) ==
    /\ TaskCreateValid(raw)
    /\ Handle(create_task(tasks_db, c, TaskCreate(raw), nextId, now))
    /\ nextId' = nextId + 1
    /\ UNCHANGED <<now, raceVars>>

CreateSubtask(c, task_id, raw) ==
    /\ TaskCreateValid(raw)
    /\ Handle(create_subtask(tasks_db, c, task_id, TaskCreate(raw), nextId, now))
    /\ nextId' = IF outcome' = "ok" THEN nextId + 1 ELSE nextId
    /\ UNCHANGED <<now, raceVars>>

FullUpdate(c, task_id, raw) ==
    /\ TaskCreateValid(raw)
    /\ Handle(update_task(tasks_db, c, task_id, TaskCreate(raw), now))
    /\ UNCHANGED <<now, nextId, raceVars>>

PartialUpdate(c, task_id, raw) ==
    /\ TaskUpdateValid(raw)
    /\ Handle(partial_update_task(tasks_db, c, task_id, TaskUpdate(raw), now))
    /\ UNCHANGED <<now, nextId, raceVars>>

Delete(c, task_id) ==
    /\ Handle(delete_task(tasks_db, c, task_id))
    /\ UNCHANGED <<now, nextId, supplied, raceVars>>

Get(c, task_id) ==
    /\ Handle(get_task(tasks_db, c, task_id))
    /\ UNCHANGED <<now, nextId, supplied, raceVars>>

List(c, q) ==
    /\ Handle(list_tasks(tasks_db, c, q))
    /\ UNCHANGED <<now, nextId, supplied, raceVars>>

ListSubtasks(c, task_id) ==
    /\ Handle(list_subtasks(tasks_db, c, task_id))
    /\ UNCHANGED <<now, nextId, supplied, raceVars>>

StatsOf(c) ==
    /\ Handle(tasks_stats(tasks_db, c, now))
    /\ UNCHANGED <<now, nextId, supplied, raceVars>>

Notifications(c) ==
    /\ Handle(tasks_notifications(tasks_db, c, now))
    /\ UNCHANGED <<now, nextId, supplied, raceVars>>

\* The clock behind datetime.utcnow() advances.
Tick ==
    /\ now < MaxTime
    /\ now' = now + 1
    /\ UNCHANGED <<tasks_db, nextId, supplied, outcome, raceVars>>

Requests == 1..MaxRequests

Idle == [pc |-> "idle", ip |-> "A", raw |-> <<>>, absent |-> FALSE,
         client_tasks |-> 0, new_task |-> 0]

Init ==
    /\ tasks_db = <<>>
    /\ now = 0
    /\ nextId = 1
    /\ supplied = 0
    /\ outcome = "ok"
    /\ dicts = <<>>
    /\ db_ref = <<>>
    /\ req = [r \in Requests |-> Idle]

\* The inputs of a run are bounded: uuid4() is drawn at most maxTasks times,
\* and a body is sent while the run's optional fields stay within maxSupplied.
Fresh(maxTasks) == nextId <= maxTasks

Sent(raw, fields, maxSupplied) ==
    /\ supplied + NSupplied(raw, fields) <= maxSupplied
    /\ supplied' = supplied + NSupplied(raw, fields)

\* uuid4() never draws an id a request has named before: the parent_id of a
\* body is an id already drawn, or one no task of the run gets.
Nameable(raw, maxTasks) ==
    IF raw.parent_id \in {Absent, Given(None)} THEN TRUE
    ELSE raw.parent_id[1][1] < nextId \/ raw.parent_id[1][1] > maxTasks

\* The routes that declare dependencies=[Depends(verify_api_key)], called by
\* the clients cs.
Mutation(cs, maxTasks, maxSupplied, creates, updates) ==
    \/ \E key \in ApiKeys, c \in cs, raw \in creates :
          /\ verify_api_key(key) /\ Fresh(maxTasks)
          /\ Sent(raw, CreateOptional, maxSupplied) /\ Nameable(raw, maxTasks)
          /\ Create(c, raw)
    \/ \E key \in ApiKeys, c \in cs, id \in 1..maxTasks, raw \in creates :
          /\ verify_api_key(key) /\ Fresh(maxTasks)
          /\ Sent(raw, CreateOptional, maxSupplied) /\ Nameable(raw, maxTasks)
          /\ CreateSubtask(c, id, raw)
    \/ \E key \in ApiKeys, c \in cs, id \in 1..maxTasks, raw \in creates :
          /\ verify_api_key(key)
          /\ Sent(raw, CreateOptional, maxSupplied) /\ Nameable(raw, maxTasks)
          /\ FullUpdate(c, id, raw)
    \/ \E key \in ApiKeys, c \in cs, id \in 1..maxTasks, raw \in updates :
          /\ verify_api_key(key)
          /\ Sent(raw, UpdateOptional, maxSupplied) /\ Nameable(raw, maxTasks)
          /\ PartialUpdate(c, id, raw)
    \/ \E key \in ApiKeys, c \in cs, id \in 1..maxTasks :
          verify_api_key(key) /\ Delete(c, id)

\* The routes without a dependency.
Query(cs, maxTasks) ==
    \/ \E c \in cs, id \in 1..maxTasks : Get(c, id)
    \/ \E c \in cs, q \in Queries : List(c, q)
    \/ \E c \in cs, id \in 1..maxTasks : ListSubtasks(c, id)
    \/ \E c \in cs : StatsOf(c)
    \/ \E c \in cs : Notifications(c)

\* Two clients.
Next ==
    \/ Mutation(Clients, MaxTasks, MaxSupplied, SpecCreates, SpecUpdates)
    \/ Query(Clients, MaxTasks)
    \/ Tick

Spec == Init /\ [][Next]_vars

\* One client, a collection of up to TreeTasks tasks.
NextTree ==
    \/ Mutation({"A"}, TreeTasks, TreeSupplied, TreeCreates, TreeUpdates)
    \/ Query({"A"}, TreeTasks)
    \/ Tick

SpecTree == Init /\ [][NextTree]_vars

\* One client, bodies of up to FieldsSupplied optional fields.
NextFields ==
    \/ Mutation({"A"}, FieldsTasks, FieldsSupplied, FieldsCreates, FieldsUpdates)
    \/ Query({"A"}, FieldsTasks)
    \/ Tick

SpecFields == Init /\ [][NextFields]_vars

\* ------------------------------------------- create_task, thread by thread
\* The handlers are plain "def"s, which the framework runs in a thread pool:
\* two requests interleave between any two reads or writes of tasks_db.

\* The bodies the concurrent requests send: a title and nothing else.
RaceBodies == Enumerated({raw \in RawCreates(0) : TaskCreateValid(raw)})

\* A request for create_task arrives from client ip.
Arrive(r, ip, raw) ==
    /\ req[r].pc = "idle"
    /\ req' = [req EXCEPT ![r] = [@ EXCEPT !.pc = "check", !.ip = ip, !.raw = raw]]
    /\ UNCHANGED <<tasks_db, now, nextId, supplied, outcome, dicts, db_ref>>

\* get_client_tasks, line 74: if ip not in tasks_db
Check(r) ==
    /\ req[r].pc = "check"
    /\ LET absent == req[r].ip \notin DOMAIN db_ref
       IN  req' = [req EXCEPT ![r] = [@ EXCEPT !.absent = absent,
                       !.pc = IF absent THEN "store" ELSE "return"]]
    /\ UNCHANGED <<tasks_db, now, nextId, supplied, outcome, dicts, db_ref>>

\* tasks_db[ip] = {}: the mapping after the store of the new dict's address.
StoreNew(refs, ip, addr) ==
    IF ip \in DOMAIN refs THEN [refs EXCEPT ![ip] = addr] ELSE refs @@ (ip :> addr)

\* get_client_tasks, line 75
Store(r) ==
    /\ req[r].pc = "store"
    /\ dicts' = Append(dicts, <<>>)
    /\ db_ref' = StoreNew(db_ref, req[r].ip, Len(dicts) + 1)
    /\ req' = [req EXCEPT ![r] = [@ EXCEPT !.pc = "return"]]
    /\ UNCHANGED <<tasks_db, now, nextId, supplied, outcome>>

\* get_client_tasks, line 76: return tasks_db[ip]
Return(r) ==
    /\ req[r].pc = "return"
    /\ req' = [req EXCEPT ![r] = [@ EXCEPT !.client_tasks = db_ref[req[r].ip],
                                           !.pc = "insert"]]
    /\ UNCHANGED <<tasks_db, now, nextId, supplied, outcome, dicts, db_ref>>

\* create_task, lines 101-117: the Task is built, stored in the dict the
\* request holds, and returned.
Insert(r) ==
    /\ req[r].pc = "insert"
    /\ LET data == TaskCreate(req[r].raw)
           new == NewTask(nextId, now, data, data.parent_id)
       IN  dicts' = [dicts EXCEPT ![req[r].client_tasks] = CreateStore(@, new)]
    /\ nextId' = nextId + 1
    /\ req' = [req EXCEPT ![r] = [@ EXCEPT !.new_task = nextId, !.pc = "done"]]
    /\ UNCHANGED <<tasks_db, now, supplied, outcome, db_ref>>

NextRace ==
    \/ \E r \in Requests, ip \in Clients, raw \in RaceBodies : Arrive(r, ip, raw)
    \/ \E r \in Requests : Check(r)
    \/ \E r \in Requests : Store(r)
    \/ \E r \in Requests : Return(r)
    \/ \E r \in Requests : Insert(r)

SpecRace == Init /\ [][NextRace]_vars

\* ------------------------------------------------------------- properties
\* The properties below are stated over the calls a state admits: in every
\* reachable state, whatever request arrives next, the handler's response
\* and the store it leaves are as the property says.

\* The collection of client c; empty when c has not been seen.
Coll(db, c) == IF c \in DOMAIN db THEN db[c] ELSE <<>>

\* The bodies that pass validation.
CreateBodies == Enumerated({raw \in SpecCreates : TaskCreateValid(raw)})
PatchBodies == Enumerated({raw \in SpecUpdates : TaskUpdateValid(raw)})
FieldsPatchBodies == Enumerated({raw \in FieldsUpdates : TaskUpdateValid(raw)})

\* The response r leaves the collection of client a as it is in the store.
Kept(r, a) ==
    /\ a \in DOMAIN r.db <=> a \in DOMAIN tasks_db
    /\ Coll(r.db, a) = Coll(tasks_db, a)

\* No task or message of the response r carries the id of a task of client a.
Hidden(r, a) ==
    \A i \in 1..Len(r.result) : r.result[i].id \notin KeysOf(Coll(tasks_db, a))

\* A call under b that names a task only a holds ends in NotFound.
Foreign(r, a, b, id) ==
    id \in KeysOf(Coll(tasks_db, a)) \ KeysOf(Coll(tasks_db, b))
        => r.outcome = "NotFound"

\* C1: client isolation.  For distinct clients a and b, every call under b
\* leaves a's collection exactly as it was; the calls that name a task id
\* end in NotFound when only a holds that id; and no query under b returns a
\* task of a (stats count b's tasks only, notifications name b's tasks only).
C1_Isolation ==
    \A a \in Clients, b \in Clients :
        a # b =>
        /\ \A raw \in CreateBodies :
              Kept(create_task(tasks_db, b, TaskCreate(raw), nextId, now), a)
        /\ \A id \in Ids, raw \in CreateBodies :
              /\ LET r == create_subtask(tasks_db, b, id, TaskCreate(raw), nextId, now)
                 IN  Kept(r, a) /\ Foreign(r, a, b, id)
              /\ LET r == update_task(tasks_db, b, id, TaskCreate(raw), now)
                 IN  Kept(r, a) /\ Foreign(r, a, b, id)
        /\ \A id \in Ids, raw \in PatchBodies :
              LET r == partial_update_task(tasks_db, b, id, TaskUpdate(raw), now)
              IN  Kept(r, a) /\ Foreign(r, a, b, id)
        /\ \A id \in Ids :
              /\ LET r == delete_task(tasks_db, b, id)
                 IN  Kept(r, a) /\ Foreign(r, a, b, id)
              /\ LET r == get_task(tasks_db, b, id)
                 IN  Kept(r, a) /\ Foreign(r, a, b, id) /\ Hidden(r, a)
              /\ LET r == list_subtasks(tasks_db, b, id)
                 IN  Kept(r, a) /\ Foreign(r, a, b, id) /\ Hidden(r, a)
        /\ \A q \in Queries :
              LET r == list_tasks(tasks_db, b, q)
              IN  Kept(r, a) /\ Hidden(r, a)
        /\ LET r == tasks_stats(tasks_db, b, now)
           IN  Kept(r, a) /\ r.result[1].total_tasks = Len(Coll(tasks_db, b))
        /\ LET r == tasks_notifications(tasks_db, b, now)
           IN  Kept(r, a) /\ Hidden(r, a)

\* A holds both tasks of the run, B has been seen and holds none, and the
\* last request, which named one of A's tasks, ended in NotFound: B asked.
C1_Witness ==
    /\ DOMAIN tasks_db = {"A", "B"}
    /\ KeysOf(tasks_db["A"]) = {1, 2}
    /\ tasks_db["B"] = <<>>
    /\ nextId = 3
    /\ outcome = "NotFound"

\* Whether a stored priority is an int within Field(ge=1, le=5).
StoredPriorityOk(task) ==
    IF task.priority = None THEN FALSE
    ELSE task.priority[1] \in MinPriority..MaxPriority

\* C2: every stored task's priority is an integer in [1,5], whatever
\* validated bodies (null fields included) the mutating calls were given.
C2_PriorityInRange ==
    \A c \in DOMAIN tasks_db :
        \A i \in 1..Len(tasks_db[c]) : StoredPriorityOk(tasks_db[c][i])

\* C3: Delete ends in NotFound when the id is not in the caller's
\* collection, and otherwise succeeds and leaves the id out of the
\* collection; it has no other outcome, whatever parent_id values the tasks
\* carry.
C3_DeleteOutcomes ==
    \A c \in Clients, id \in Ids :
        LET r == delete_task(tasks_db, c, id)
        IN  IF id \in KeysOf(Coll(tasks_db, c))
            THEN r.outcome = "ok" /\ id \notin KeysOf(r.db[c])
            ELSE r.outcome = "NotFound"

\* C4: a successful Delete(p) leaves the caller's collection equal to the
\* collection before the call without p and without the tasks whose
\* parent_id is p: every other task, a grandchild included, is still there,
\* unmodified and in its place relative to the others.
C4_CascadeOneLevel ==
    \A c \in DOMAIN tasks_db, p \in Ids :
        LET r == delete_task(tasks_db, c, p)
        IN  r.outcome = "ok" =>
            /\ r.db[c] = SelectSeq(tasks_db[c],
                             LAMBDA t : t.id # p /\ t.parent_id # Some(p))
            /\ \A o \in DOMAIN tasks_db \ {c} : Kept(r, o)

\* Task 1 had the subtask 2, which had the subtask 3 (no body of the run
\* gave a parent_id); Delete(1) removed 1 and 2, and 3 is left with its
\* parent_id naming the deleted 2.
C4_Witness ==
    /\ supplied = 0
    /\ nextId = 4
    /\ outcome = "ok"
    /\ "A" \in DOMAIN tasks_db
    /\ Len(tasks_db["A"]) = 1
    /\ tasks_db["A"][1].id = 3
    /\ tasks_db["A"][1].parent_id = Some(2)

\* C5: Partial Update on a present task leaves every field the body does
\* not give as it was, updated_at apart: id and created_at always, and any
\* of title, description, completed, due_date, priority, tags, parent_id
\* that is absent from the body.  No other task changes, in this collection
\* or another, and the collection holds the same ids.
C5_PartialUpdateFrame ==
    \A c \in DOMAIN tasks_db, raw \in FieldsPatchBodies :
        \A i \in 1..Len(tasks_db[c]) :
            LET old == tasks_db[c][i]
                r == partial_update_task(tasks_db, c, old.id, TaskUpdate(raw), now)
                new == r.db[c][i]
            IN  /\ r.outcome = "ok"
                /\ \A f \in DOMAIN old \ {"updated_at"} :
                      (f \notin UpdateOptional \/ raw[f] = Absent) => new[f] = old[f]
                /\ new.id = old.id /\ new.created_at = old.created_at
                /\ Len(r.db[c]) = Len(tasks_db[c])
                /\ \A j \in 1..Len(tasks_db[c]) : j # i => r.db[c][j] = tasks_db[c][j]
                /\ KeysOf(r.db[c]) = KeysOf(tasks_db[c])
                /\ \A o \in Clients \ {c} : Kept(r, o)

\* A task created at time 0 whose title and completed were given by Partial
\* Update at time 1, with the fields no body gave still at their defaults.
C5_Witness ==
    /\ "A" \in DOMAIN tasks_db
    /\ \E i \in 1..Len(tasks_db["A"]) :
          LET task == tasks_db["A"][i]
          IN  /\ task.title = Some("Y")
              /\ task.completed = Some(TRUE)
              /\ task.created_at = 0 /\ task.updated_at = 1
              /\ task.priority = Some(DefaultPriority)
              /\ task.tags = Some(<<>>)
              /\ task.description = None /\ task.due_date = None
    /\ outcome = "ok"

\* The value a body gives for a field: None when the field is null or absent.
Supplied(field) == IF field = Absent THEN None ELSE field[1]

\* C6: Full Update on a present task sets title, description, due_date and
\* parent_id to the supplied values, null or absent included; sets priority
\* and tags to the supplied value when it is non-null and otherwise keeps
\* the stored value; refreshes updated_at; leaves id, created_at and
\* completed.  On an absent id it ends in NotFound and changes no task.
C6_FullUpdate ==
    \A c \in Clients, id \in Ids, raw \in CreateBodies :
        LET r == update_task(tasks_db, c, id, TaskCreate(raw), now)
            coll == Coll(tasks_db, c)
            i == IndexOf(coll, id)
        IN  IF i = 0
            THEN /\ r.outcome = "NotFound"
                 /\ \A o \in Clients : Coll(r.db, o) = Coll(tasks_db, o)
            ELSE LET old == coll[i]
                     new == r.db[c][i]
                 IN  /\ r.outcome = "ok"
                     /\ new.title = Supplied(raw.title)
                     /\ new.description = Supplied(raw.description)
                     /\ new.due_date = Supplied(raw.due_date)
                     /\ new.parent_id = Supplied(raw.parent_id)
                     /\ new.priority = IF Supplied(raw.priority) # None
                                       THEN Supplied(raw.priority)
                                       ELSE old.priority
                     /\ new.tags = IF Supplied(raw.tags) # None
                                   THEN Supplied(raw.tags)
                                   ELSE old.tags
                     /\ new.updated_at = now
                     /\ new.id = old.id
                     /\ new.created_at = old.created_at
                     /\ new.completed = old.completed

Max(a, b) == IF a >= b THEN a ELSE b

\* Whether the task's tags contain the tag.
HasTag(task, tag) ==
    IF task.tags = None THEN FALSE
    ELSE \E i \in 1..Len(task.tags[1]) : task.tags[1][i] = tag

\* Whether the task satisfies every filter the query supplies.
Satisfies(task, q) ==
    /\ q.completed # None => task.completed = q.completed
    /\ q.tag # None => HasTag(task, q.tag[1])
    /\ q.priority # None => task.priority = q.priority
    /\ q.parent => task.parent_id = None

\* C7: List never errors (skip >= 0, limit >= 1) and returns the slice
\* [skip, skip + limit) of the tasks of the caller's collection, in
\* collection order, that satisfy every supplied filter; the result has
\* min(limit, max(0, n - skip)) tasks, n the number of matching tasks.
C7_List ==
    \A c \in Clients, q \in Queries :
        LET r == list_tasks(tasks_db, c, q)
            matching == SelectSeq(Coll(tasks_db, c), LAMBDA t : Satisfies(t, q))
            n == Len(matching)
        IN  /\ r.outcome = "ok"
            /\ r.result = SubSeq(matching, q.skip + 1, Min(q.skip + q.limit, n))
            /\ Len(r.result) = Min(q.limit, Max(0, n - q.skip))

\* The place in the collection of the task a message names; 0 when none.
TaskOf(coll, message) == IndexOf(coll, message.id)

C9_Stats ==
    \A c \in Clients :
        LET r == tasks_stats(tasks_db, c, now)
            coll == Coll(tasks_db, c)
            stats == r.result[1]
        IN  /\ r.outcome = "ok"
            /\ stats.total_tasks = Len(coll)
            /\ stats.total_tasks = stats.completed_tasks + stats.pending_tasks
            /\ stats.overdue_tasks <= stats.pending_tasks
            /\ stats.overdue_tasks =
                  Cardinality({i \in 1..Len(coll) :
                                  /\ coll[i].due_date # None
                                  /\ coll[i].due_date[1] < now
                                  /\ coll[i].completed # Some(TRUE)})

\* A task whose completed is null, due in the past: counted as pending and
\* as overdue.
C9_Witness ==
    /\ "A" \in DOMAIN tasks_db
    /\ \E i \in 1..Len(tasks_db["A"]) :
          /\ tasks_db["A"][i].completed = None
          /\ tasks_db["A"][i].due_date = Some(0)
    /\ now = 1
    /\ LET stats == tasks_stats(tasks_db, "A", now).result[1]
       IN  stats.overdue_tasks >= 1 /\ stats.pending_tasks >= 1
    /\ outcome = "ok"

\* The task request r created is in the collection of r's client.
Present(r) ==
    /\ req[r].ip \in DOMAIN db_ref
    /\ req[r].new_task \in KeysOf(dicts[db_ref[req[r].ip]])

AllReturned == \A r \in Requests : req[r].pc = "done"

\* The requests from r's client that found the client missing from tasks_db.
SawAbsent(ip) == {r \in Requests : req[r].ip = ip /\ req[r].absent}

\* C10, as stated: once the interleaved Create requests have all returned,
\* the task of each is in its client's collection.
C10_BothPresent == AllReturned => \A r \in Requests : Present(r)

\* C10: once the interleaved Create requests have all returned, the task of
\* each is in its client's collection, provided at most one request found
\* the client's address missing from the store.
C10_PresentUnlessBothSawAbsent ==
    AllReturned =>
        \A r \in Requests : Cardinality(SawAbsent(req[r].ip)) <= 1 => Present(r)

\* Two requests from the same new client have returned; one of them found
\* the address missing, the other found the collection the first had
\* stored, and both tasks are in it.
C10_Witness ==
    /\ AllReturned
    /\ \A r \in Requests : req[r].ip = "A" /\ Present(r)
    /\ Cardinality(SawAbsent("A")) = 1
    /\ Len(dicts[db_ref["A"]]) = MaxRequests
====
